---- MODULE Spec2Model ----
(***************************************************************************)
(* A model of ctisim's image.py: SegmentSimulator (one amplifier channel:  *)
(* exposure array, cti, serial traps, serial readout) and ImageSimulator   *)
(* (sixteen channels and their read out).                                  *)
(*                                                                         *)
(* Numbers.  The program computes in float64.  Here every charge is an     *)
(* integer and every fraction (cti, trap scaling, the released fraction    *)
(* 1 - exp(-1/emission_time)) is a numerator over a small denominator.     *)
(* Exposures are multiples of Unit, which holds one factor StepDen for     *)
(* every transfer step a readout can make, so that each product the        *)
(* readout forms is an integer (ExactArithmetic checks it); on these       *)
(* inputs the float computation is exact too.                              *)
(***************************************************************************)
EXTENDS Integers, Sequences, FiniteSets, TLC

\* ------------------------------------------------------------------ bounds
\* Most columns one readout produces: prescan_width + nx + serial overscan.
MaxIx == 3
\* Most rows one readout produces: ny + parallel overscan.
MaxIy == 2
\* Largest exposure signal per pixel, in Units.
MaxLevel == 2
\* Longest list of registered traps.
MaxTraps == 2
\* cti is a numerator over CtiDen: 0, 1/CtiDen, ..., (CtiDen-1)/CtiDen.
CtiDen == 3
\* Trap scaling and exp(-1/emission_time) are numerators over TrapDen.
TrapDen == 2

\* --------------------------------------------------------------- numbers
RECURSIVE Pow(_, _)
Pow(b, e) == IF e = 0 THEN 1 ELSE b * Pow(b, e - 1)

\* The divisions one transfer step makes: capture scaling, cti, release.
StepDen == CtiDen * TrapDen * TrapDen

\* One unit of exposure signal: a factor StepDen for every transfer step and
\* a factor 2 for the division by a gain of 2.
Unit == 2 * Pow(StepDen, MaxIx)

\* x * (n/d), x a multiple of d.
Frac(x, n, d) == (x \div d) * n

Min(a, b) == IF a < b THEN a ELSE b
Max(a, b) == IF a > b THEN a ELSE b

\* numpy.clip(a, a_min, a_max) = minimum(a_max, maximum(a, a_min))
ClipNoUpper(a, lo, hi) == Max(a, lo)
Clip(a, lo, hi) == Min(hi, Max(a, lo))

\* numpy.zeros((h, w)); rows and columns are indexed from 0 as in Python.
Zeros(h, w) == [r \in 0..(h - 1) |-> [c \in 0..(w - 1) |-> 0]]

Height(arr) == Cardinality(DOMAIN arr)
WidthOf(arr) == IF DOMAIN arr = {} THEN 0 ELSE Cardinality(DOMAIN arr[0])

RECURSIVE SumTo(_, _)
SumTo(row, n) == IF n = 0 THEN 0 ELSE row[n - 1] + SumTo(row, n - 1)
\* The sum of one row of an array.
RowSum(row) == SumTo(row, Cardinality(DOMAIN row))

\* ------------------------------------------------------------------ state
VARIABLES
    \* SegmentSimulator's attributes (image.py 253-272)
    ny, nx, prescan_width,  \* geometry
    segarr,                 \* the stored exposure, ny x (nx + prescan_width)
    output_amplifier,       \* the amplifier: gain, noise, offset, drift parameters
    cti,                    \* numerator of cti over CtiDen
    serial_traps,           \* the registered traps, in order; << >> is None
    do_trapping,            \* the trapping-enabled flag
    \* the call in progress and how the last call ended
    pc,                     \* "idle", or the place simulate_readout is at
    error,                  \* the exception the last call raised, or "none"
    \* simulate_readout's arguments and locals (image.py 335-396)
    args,                   \* serial_overscan_width, parallel_overscan_width, do_bias_drift
    i,                      \* the loop index: the output column being clocked out
    image,                  \* the output array being filled
    free_charge, trapped_charge,
    trap_arrays,            \* size, scaling, threshold, emission_time
    drift,
    captured_charge, released_charge,
    aliased,                \* free_charge is the very array object stored in segarr
    output,                 \* what the last simulate_readout returned
    \* history, for stating the claims
    noise_draw,             \* the noise image drawn at line 356
    captured_total, released_total, \* sums of captured_charge / released_charge
    entry,                  \* the stored state when the readout was called
    previous,               \* the previous readout's arguments and output
    steps,                  \* the transfer steps made: column, charge, drift call
    call,                   \* the last call on the segment: method, arguments,
                            \* and the stored exposure it found
    \* ImageSimulator's attributes (image.py 16-27)
    sensor,                 \* ny, nx, prescan_width and the two overscan widths
    segments,               \* channel -> its SegmentSimulator
    amplifiers,             \* the OutputAmplifier objects, by reference
    \* ImageSimulator.simulate_readout's arguments and locals (124-173)
    img_pc, img_error, img_args,
    segarr_dict,            \* channel -> the array read out
    amp,                    \* the loop variable of lines 158-159
    fitted                  \* the data of the last update_parameters, or << >>

segvars == <<ny, nx, prescan_width, segarr, output_amplifier, cti, serial_traps,
             do_trapping>>
rovars == <<args, i, image, free_charge, trapped_charge, trap_arrays, drift,
            captured_charge, released_charge, aliased, output, noise_draw,
            captured_total, released_total, entry, previous, steps, call>>
imgvars == <<sensor, segments, amplifiers, img_pc, img_error, img_args, segarr_dict, amp,
             fitted>>
vars == <<segvars, rovars, pc, error, imgvars>>

\* The register's width: the columns of segarr.
Width == nx + prescan_width

\* A SerialTrap: emission_time holds the numerator k of exp(-1/emission_time)
\* = k/TrapDen, so that a larger k is a longer emission time and 0 is the
\* value exp(-1/0.) = 0 the arrays' zero entries give.
Trap(size, scaling, emission_time, pixel, threshold) ==
    [size |-> size, scaling |-> scaling, emission_time |-> emission_time,
     pixel |-> pixel, threshold |-> threshold]

\* An OutputAmplifier.
Amplifier(gain, noise, offset, drift_scale, decay_time, threshold) ==
    [gain |-> gain, noise |-> noise, offset |-> offset, drift_scale |-> drift_scale,
     decay_time |-> decay_time, threshold |-> threshold]

NoArray == << >>
NoArgs == [serial_overscan_width |-> 0, parallel_overscan_width |-> 0,
           do_bias_drift |-> FALSE]
NoTrapArrays == [size |-> NoArray, scaling |-> NoArray, threshold |-> NoArray,
                 emission_time |-> NoArray]
NoEntry == [segarr |-> NoArray, cti |-> 0, serial_traps |-> << >>]
NoPrevious == [valid |-> FALSE, args |-> NoArgs, output |-> NoArray]
NoCall == [op |-> "none", arg |-> << >>, before |-> NoArray]
\* The record of a call of method op with arguments arg.
Called(op, arg) == [op |-> op, arg |-> arg, before |-> segarr]

\* ------------------------------------------------- make_trap_arrays (304-333)
\* arr with column col of every row set to v: arr[:, col] = v
SetColumn(arr, col, v) ==
    [r \in DOMAIN arr |-> [c \in DOMAIN arr[r] |-> IF c = col THEN v ELSE arr[r][c]]]

\* line 322: if loc in pixel_occupation
NeverDuplicate(loc, pixel_occupation) == FALSE
DuplicatePixel(loc, pixel_occupation) ==
    \E k \in 1..Len(pixel_occupation) : pixel_occupation[k] = loc

\* line 324: if loc > self.nx+self.prescan_width
OutsideRegister(loc, w) == loc > w

\* numpy's arr[:, loc] for an array of w columns: a negative loc counts from
\* the right end, and a loc outside -w .. w-1 raises IndexError.
IndexInBounds(loc, w) == -w <= loc /\ loc < w
ColumnOf(loc, w) == IF loc < 0 THEN loc + w ELSE loc

\* lines 319-331, from trap number k on.  err is the exception raised, if any.
RECURSIVE FillTrapArrays(_, _, _, _)
FillTrapArrays(traps, k, w, acc) ==
    IF k > Len(traps) \/ acc.err # "none" THEN acc
    ELSE LET trap == traps[k]
             loc == trap.pixel
         IN  IF DuplicatePixel(loc, acc.pixel_occupation)
                 THEN [acc EXCEPT !.err = "ValueError"]
             ELSE IF OutsideRegister(loc, w)
                 THEN [acc EXCEPT !.err = "ValueError"]
             ELSE IF ~IndexInBounds(loc, w)
                 THEN [acc EXCEPT !.err = "IndexError"]
             ELSE FillTrapArrays(traps, k + 1, w,
                    [acc EXCEPT
                       !.scaling = SetColumn(@, ColumnOf(loc, w), trap.scaling),
                       !.size = SetColumn(@, ColumnOf(loc, w), trap.size),
                       !.emission_time = SetColumn(@, ColumnOf(loc, w), trap.emission_time),
                       !.threshold = SetColumn(@, ColumnOf(loc, w), trap.threshold),
                       !.pixel_occupation = Append(@, loc)])

\* make_trap_arrays of a segment of h rows and w register columns.
MakeTrapArrays(traps, h, w) ==
    FillTrapArrays(traps, 1, w,
        [err |-> "none", size |-> Zeros(h, w), scaling |-> Zeros(h, w),
         threshold |-> Zeros(h, w), emission_time |-> Zeros(h, w),
         pixel_occupation |-> << >>])

\* --------------------------------------------- simulate_readout (335-396)
\* line 354
Iy(h, parallel_overscan_width) == h + parallel_overscan_width
\* line 355
IxNoPrescan(n, prescan, serial_overscan_width) == n + serial_overscan_width
Ix(n, prescan, serial_overscan_width) == n + prescan + serial_overscan_width

\* lines 356-358: the arrays numpy.random.normal(offset, noise, (h, w)) may
\* return.  With noise = 0 the draw is the offset; otherwise the model draws
\* offset +- noise, in one of two checkerboards.
NoiseDraws(oa, h, w) ==
    IF oa.noise = 0
    THEN {[r \in 0..(h - 1) |-> [c \in 0..(w - 1) |-> oa.offset]]}
    ELSE {[r \in 0..(h - 1) |-> [c \in 0..(w - 1) |->
              IF (r + c + k) % 2 = 0 THEN oa.offset + oa.noise
                                     ELSE oa.offset - oa.noise]] : k \in 0..1}

\* line 359: copy.deepcopy gives a new array object, not the stored one.
NoDeepCopy == TRUE
DeepCopyIsAlias == FALSE

\* line 360: trapped_charge = np.zeros(free_charge.shape); old is what the
\* previous run left.
KeepTrappedCharge(old, h, w) ==
    IF Height(old) = h /\ WidthOf(old) = w THEN old ELSE Zeros(h, w)
InitialTrappedCharge(old, h, w) == Zeros(h, w)

\* lines 373-374
CapturedToCapacity(free, trapped, ta) ==
    [r \in DOMAIN free |-> [c \in DOMAIN free[r] |-> ta.size[r][c] - trapped[r][c]]]
CapturedCharge(free, trapped, ta) ==
    [r \in DOMAIN free |-> [c \in DOMAIN free[r] |->
        Clip(Frac(free[r][c] - ta.threshold[r][c], ta.scaling[r][c], TrapDen),
             trapped[r][c], ta.size[r][c]) - trapped[r][c]]]

ArrayPlus(a, b) == [r \in DOMAIN a |-> [c \in DOMAIN a[r] |-> a[r][c] + b[r][c]]]
ArrayMinus(a, b) == [r \in DOMAIN a |-> [c \in DOMAIN a[r] |-> a[r][c] - b[r][c]]]

\* line 379: free_charge*cte, cte = 1 - cti (line 362)
TransferredWithoutLoss(free, ctiN) == free
TransferredCharge(free, ctiN) ==
    [r \in DOMAIN free |-> [c \in DOMAIN free[r] |->
        Frac(free[r][c], CtiDen - ctiN, CtiDen)]]

\* line 380: free_charge*cti
NoDeferredCharge(free, ctiN) == [r \in DOMAIN free |-> [c \in DOMAIN free[r] |-> 0]]
DeferredHeadOnly(free, ctiN) ==
    [r \in DOMAIN free |-> [c \in DOMAIN free[r] |->
        IF c = 0 THEN Frac(free[r][c], ctiN, CtiDen) ELSE 0]]
DeferredCharge(free, ctiN) ==
    [r \in DOMAIN free |-> [c \in DOMAIN free[r] |-> Frac(free[r][c], ctiN, CtiDen)]]

\* line 388: np.pad(arr, ((0, 0), (0, 1)), mode='constant')[:, 1:]
NotShifted(arr) == arr
PadShift(arr) ==
    [r \in DOMAIN arr |-> [c \in DOMAIN arr[r] |->
        IF (c + 1) \in DOMAIN arr[r] THEN arr[r][c + 1] ELSE 0]]

\* line 385/387: the rows image[:iy-parallel_overscan_width, i] names
RecordedRows(iy, parallel_overscan_width) == 0..(iy - parallel_overscan_width - 1)

\* OutputAmplifier.offset_drift(drift, charge), per row: above the drift
\* threshold the drift goes to drift_scale x charge, otherwise it decays by
\* exp(-1/decay_time) = decay_time/TrapDen (rounded down).
OffsetDrift(oa, old, charge) ==
    [r \in DOMAIN charge |->
        IF charge[r] > oa.threshold THEN oa.drift_scale * charge[r]
        ELSE (old[r] * oa.decay_time) \div TrapDen]

\* lines 383-387: image after column col has been recorded
RecordedWithoutDrift(img, col, rows, charge, dr) ==
    [r \in DOMAIN img |-> [c \in DOMAIN img[r] |->
        IF c = col /\ r \in rows THEN img[r][c] + charge[r][0] ELSE img[r][c]]]
Recorded(img, col, rows, charge, dr) ==
    [r \in DOMAIN img |-> [c \in DOMAIN img[r] |->
        IF c = col /\ r \in rows THEN img[r][c] + charge[r][0] + dr[r]
        ELSE img[r][c]]]

\* line 392: trapped_charge*(1-np.exp(-1./emission_time))
ReleasedCharge(trapped, ta) ==
    [r \in DOMAIN trapped |-> [c \in DOMAIN trapped[r] |->
        Frac(trapped[r][c], TrapDen - ta.emission_time[r][c], TrapDen)]]

\* line 393: trapped_charge -= released_charge
TrappedNotReduced(trapped, released) == trapped
TrappedAfterRelease(trapped, released) == ArrayMinus(trapped, released)

\* line 396: image/float(gain)
GainDivided(img, gain) ==
    [r \in DOMAIN img |-> [c \in DOMAIN img[r] |-> img[r][c] \div gain]]

\* ----------------------------------------------------------------- inputs
\* Widest serial prescan.
MaxPrescan == 1

\* Amplifiers: an ideal one (gain 1, no noise, no offset, no drift), one
\* with gain 2 and a bias drift, and one with noise and an offset besides.
AmpInputs ==
    {Amplifier(1, 0, 0, 0, 0, 0),
     Amplifier(2, 0, 0, 1, 1, Unit),
     Amplifier(2, 2, 4, 1, 1, Unit)}

\* Trap parameters: capacity, scaling (over TrapDen), emission time, threshold.
TrapKinds ==
    {[size |-> Unit, scaling |-> TrapDen, emission_time |-> 1, threshold |-> 0],
     [size |-> 2 * Unit, scaling |-> 1, emission_time |-> 0, threshold |-> Unit]}

\* The traps add_trap is called with on a register of w columns: every
\* column of the register, and the indices next to its two ends.
TrapInputs(w) ==
    {Trap(k.size, k.scaling, k.emission_time, p, k.threshold) :
        k \in TrapKinds, p \in (-1)..(w + 1)}

\* The flat images flatfield_exp adds (lines 427-430): signal everywhere
\* without shot noise; with it, a Poisson draw per pixel, here one of two
\* checkerboards of draws around the signal.
FlatDraws(signal, noise, h, n) ==
    IF noise
    THEN {[r \in 0..(h - 1) |-> [c \in 0..(n - 1) |->
              IF (r + c + k) % 2 = 0 THEN (signal + 1) * Unit
                                     ELSE (signal - 1) * Unit]] : k \in 0..1}
    ELSE {[r \in 0..(h - 1) |-> [c \in 0..(n - 1) |-> signal * Unit]]}

\* The signal lists ramp_exp is called with: every length up to MaxIy + 1.
RampInputs ==
    UNION {[1..len -> 0..MaxLevel] : len \in 1..(MaxIy + 1)}

\* -------------------------------------------------------------------- Init
\* The state a call leaves simulate_readout's locals in when it is not one.
ClearReadout ==
    /\ args' = NoArgs
    /\ i' = 0
    /\ image' = NoArray
    /\ free_charge' = NoArray
    /\ trapped_charge' = NoArray
    /\ trap_arrays' = NoTrapArrays
    /\ drift' = << >>
    /\ captured_charge' = NoArray
    /\ released_charge' = NoArray
    /\ aliased' = FALSE
    /\ output' = NoArray
    /\ noise_draw' = NoArray
    /\ captured_total' = NoArray
    /\ released_total' = NoArray
    /\ entry' = NoEntry
    /\ previous' = NoPrevious
    /\ steps' = << >>

\* No ImageSimulator has been made: a segment is used on its own.
NoSensor ==
    /\ sensor = << >>
    /\ segments = << >>
    /\ amplifiers = << >>
    /\ img_pc = "none"
    /\ img_error = "none"
    /\ img_args = << >>
    /\ segarr_dict = << >>
    /\ amp = 0
    /\ fitted = << >>

\* add_trap (296-302) on the trap list and flag st: None has no append,
\* the AttributeError is caught and the list and the flag are set.
AddTrapFlagNotSet(st, serial_trap) ==
    IF st.serial_traps = << >>
    THEN [serial_traps |-> <<serial_trap>>, do_trapping |-> st.do_trapping]
    ELSE [serial_traps |-> Append(st.serial_traps, serial_trap),
          do_trapping |-> st.do_trapping]
AfterAddTrap(st, serial_trap) ==
    IF st.serial_traps = << >>
    THEN [serial_traps |-> <<serial_trap>>, do_trapping |-> TRUE]
    ELSE [serial_traps |-> Append(st.serial_traps, serial_trap),
          do_trapping |-> st.do_trapping]

\* The traps argument of __init__: None, one SerialTrap, or a list.
NoTraps == [kind |-> "None", value |-> << >>]
OneTrap(trap) == [kind |-> "SerialTrap", value |-> trap]
TrapList(list) == [kind |-> "list", value |-> list]

\* lines 268-270: the traps the loop of line 271 goes through
TrapsToAdd(traps) ==
    IF traps.kind = "None" THEN << >>
    ELSE IF traps.kind = "SerialTrap" THEN <<traps.value>>
    ELSE traps.value

\* lines 266-272: serial_traps and do_trapping after the constructor has
\* added the traps of list from number k on.
RECURSIVE AddTraps(_, _, _)
AddTraps(st, list, k) ==
    IF k > Len(list) THEN st
    ELSE AddTraps(AfterAddTrap(st, list[k]), list, k + 1)

\* SegmentSimulator.from_amp_geom(amp_geom, output_amplifier, cti=cti,
\* traps=traps), imarr None (lines 253-289).
ConstructedWith(amp_inputs, ctis, widest, traps_inputs) ==
    /\ ny \in 1..MaxIy
    /\ prescan_width \in 0..MaxPrescan
    /\ nx \in 1..(widest - prescan_width)
    /\ segarr = Zeros(ny, nx + prescan_width)
    /\ output_amplifier \in amp_inputs
    /\ cti \in ctis
    /\ \E traps \in traps_inputs :
          LET st == AddTraps([serial_traps |-> << >>, do_trapping |-> FALSE],
                             TrapsToAdd(traps), 1)
          IN  /\ serial_traps = st.serial_traps
              /\ do_trapping = st.do_trapping
              /\ call = [op |-> "__init__", arg |-> traps, before |-> NoArray]
    /\ pc = "idle"
    /\ error = "none"
    /\ args = NoArgs
    /\ i = 0
    /\ image = NoArray
    /\ free_charge = NoArray
    /\ trapped_charge = NoArray
    /\ trap_arrays = NoTrapArrays
    /\ drift = << >>
    /\ captured_charge = NoArray
    /\ released_charge = NoArray
    /\ aliased = FALSE
    /\ output = NoArray
    /\ noise_draw = NoArray
    /\ captured_total = NoArray
    /\ released_total = NoArray
    /\ entry = NoEntry
    /\ previous = NoPrevious
    /\ steps = << >>
    /\ NoSensor

\* The same with traps None.
Constructed(amp_inputs, ctis, widest) ==
    ConstructedWith(amp_inputs, ctis, widest, {NoTraps})

\* No call is in progress.
Callable == pc \in {"idle", "done"}

\* ------------------------------------------------------ add_trap (296-302)
AddTrap(serial_trap) ==
    /\ Callable
    /\ Len(serial_traps) < MaxTraps
    /\ LET st == AfterAddTrap([serial_traps |-> serial_traps,
                               do_trapping |-> do_trapping], serial_trap)
       IN  /\ serial_traps' = st.serial_traps
           /\ do_trapping' = st.do_trapping
    /\ pc' = "idle"
    /\ error' = "none"
    /\ call' = Called("add_trap", serial_trap)
    /\ ClearReadout
    /\ UNCHANGED <<ny, nx, prescan_width, segarr, output_amplifier, cti>>
    /\ UNCHANGED imgvars

\* ------------------------------------------------- exposures (398-431)
\* arr[:, prescan_width:] += add
AddToImageRegion(arr, prescan, add) ==
    [r \in DOMAIN arr |-> [c \in DOMAIN arr[r] |->
        IF c >= prescan THEN arr[r][c] + add[r][c - prescan] ELSE arr[r][c]]]

MaxPixel(arr) ==
    CHOOSE m \in {arr[r][c] : r \in DOMAIN arr, c \in DOMAIN arr[0]} :
        \A r \in DOMAIN arr : \A c \in DOMAIN arr[r] : arr[r][c] <= m

\* flatfield_exp(signal, noise), lines 417-431
FlatfieldExp(signal, noise) ==
    /\ Callable
    /\ \E flat \in FlatDraws(signal, noise, ny, nx) :
          /\ MaxPixel(AddToImageRegion(segarr, prescan_width, flat)) <= MaxLevel * Unit
          /\ segarr' = AddToImageRegion(segarr, prescan_width, flat)
    /\ pc' = "idle"
    /\ error' = "none"
    /\ call' = Called("flatfield_exp", [signal |-> signal, noise |-> noise])
    /\ ClearReadout
    /\ UNCHANGED <<ny, nx, prescan_width, output_amplifier, cti, serial_traps, do_trapping>>
    /\ UNCHANGED imgvars

\* line 411: if len(signal_list) != self.ny
RampListTooShort(signal_list, h) == Len(signal_list) < h
RampListWrong(signal_list, h) == Len(signal_list) # h

\* ramp_exp(signal_list), lines 398-415
RampExp(signal_list) ==
    /\ Callable
    /\ IF RampListWrong(signal_list, ny)
       THEN /\ error' = "ValueError"
            /\ segarr' = segarr
       ELSE LET ramp == [r \in 0..(ny - 1) |-> [c \in 0..(nx - 1) |->
                            signal_list[r + 1] * Unit]]
            IN  /\ MaxPixel(AddToImageRegion(segarr, prescan_width, ramp)) <= MaxLevel * Unit
                /\ segarr' = AddToImageRegion(segarr, prescan_width, ramp)
                /\ error' = "none"
    /\ pc' = "idle"
    /\ call' = Called("ramp_exp", [signal_list |-> signal_list])
    /\ ClearReadout
    /\ UNCHANGED <<ny, nx, prescan_width, output_amplifier, cti, serial_traps, do_trapping>>
    /\ UNCHANGED imgvars

\* ---------------------------------------------------- fe55_exp (433-459)
\* Longest side of a stamp, and most hits of one call.
MaxStamp == 2
MaxHits == 2

\* The stamps sim_fe55_hit(stamp_length=len).array may give: len x len
\* pixels (lines 483, 504), the charge of the hit in one of them.
StampInputs(len) ==
    {[r \in 0..(len - 1) |-> [c \in 0..(len - 1) |->
         IF r = hy /\ c = hx THEN Unit ELSE 0]] : hy \in 0..(len - 1), hx \in 0..(len - 1)}

\* np.random.randint(low, high) draws from low .. high-1 and raises
\* ValueError when there is no such number.
RandintFails(low, high) == low >= high
Randint(low, high) == low..(high - 1)

\* line 459: arr[y0:y0+sy, x0:x0+sx] += stamp
AddStamp(arr, y0, x0, stamp) ==
    [r \in DOMAIN arr |-> [c \in DOMAIN arr[r] |->
        IF (r - y0) \in DOMAIN stamp /\ (c - x0) \in DOMAIN stamp[0]
        THEN arr[r][c] + stamp[r - y0][c - x0]
        ELSE arr[r][c]]]

\* lines 455-457: where a stamp of sy x sx pixels may go
StampRows(h, sy) == Randint(0, h - sy)
StampColsFromZero(n, prescan, sx) == Randint(0, n + prescan - sx)
StampCols(n, prescan, sx) == Randint(prescan, n + prescan - sx)

\* One turn of the loop of lines 449-459 on any of the arrays arrs.
Fe55Hit(arrs, len, h, n, prescan) ==
    {AddStamp(a, y0, x0, stamp) :
        a \in arrs, y0 \in StampRows(h, len), x0 \in StampCols(n, prescan, len),
        stamp \in StampInputs(len)}

\* The arrays k turns of the loop may leave.
RECURSIVE Fe55Hits(_, _, _, _, _, _)
Fe55Hits(arrs, k, len, h, n, prescan) ==
    IF k = 0 THEN arrs
    ELSE Fe55Hits(Fe55Hit(arrs, len, h, n, prescan), k - 1, len, h, n, prescan)

\* fe55_exp(num_fe55_hits, stamp_length): the first turn raises when a
\* randint has nothing to draw from, before anything is added.
Fe55Exp(num_fe55_hits, stamp_length) ==
    /\ Callable
    /\ IF num_fe55_hits > 0
          /\ (\/ RandintFails(0, ny - stamp_length)
              \/ RandintFails(prescan_width, nx + prescan_width - stamp_length))
       THEN /\ error' = "ValueError"
            /\ segarr' = segarr
       ELSE /\ \E a \in Fe55Hits({segarr}, num_fe55_hits, stamp_length, ny, nx,
                                 prescan_width) :
                  /\ MaxPixel(a) <= MaxLevel * Unit
                  /\ segarr' = a
            /\ error' = "none"
    /\ pc' = "idle"
    /\ call' = Called("fe55_exp", [num_fe55_hits |-> num_fe55_hits,
                                   stamp_length |-> stamp_length])
    /\ ClearReadout
    /\ UNCHANGED <<ny, nx, prescan_width, output_amplifier, cti, serial_traps, do_trapping>>
    /\ UNCHANGED imgvars

\* ------------------------------------------------------- reset (291-294)
\* Line 294 reads self.array, an attribute no SegmentSimulator has (the
\* exposure is self.segarr): the read raises AttributeError.
Reset ==
    /\ Callable
    /\ error' = "AttributeError"
    /\ segarr' = segarr
    /\ pc' = "idle"
    /\ call' = Called("reset", << >>)
    /\ ClearReadout
    /\ UNCHANGED <<ny, nx, prescan_width, output_amplifier, cti, serial_traps, do_trapping>>
    /\ UNCHANGED imgvars

\* --------------------------------------- simulate_readout, step by step
\* Lines 354-367: the call, up to the loop.
SimulateReadout(serial_overscan_width, parallel_overscan_width, do_bias_drift) ==
    /\ Callable
    /\ LET iy == Iy(ny, parallel_overscan_width)
           ix == Ix(nx, prescan_width, serial_overscan_width)
           made == MakeTrapArrays(serial_traps, ny, Width)
           new == [serial_overscan_width |-> serial_overscan_width,
                   parallel_overscan_width |-> parallel_overscan_width,
                   do_bias_drift |-> do_bias_drift]
       IN  /\ ix <= MaxIx
           /\ iy <= MaxIy
           /\ call' = Called("simulate_readout", new)
           /\ IF do_trapping /\ made.err # "none"
              THEN \* make_trap_arrays raises: the call ends at line 365
                   /\ pc' = "idle"
                   /\ error' = made.err
                   /\ ClearReadout
              ELSE /\ \E draw \in NoiseDraws(output_amplifier, iy, ix) :
                         /\ image' = draw
                         /\ noise_draw' = draw
                   /\ free_charge' = segarr
                   /\ aliased' = DeepCopyIsAlias
                   /\ trapped_charge' = InitialTrappedCharge(trapped_charge, ny, Width)
                   /\ trap_arrays' = IF do_trapping
                                     THEN [size |-> made.size, scaling |-> made.scaling,
                                           threshold |-> made.threshold,
                                           emission_time |-> made.emission_time]
                                     ELSE NoTrapArrays
                   /\ drift' = [r \in 0..(ny - 1) |-> 0]
                   /\ args' = new
                   /\ i' = 0
                   /\ captured_charge' = NoArray
                   /\ released_charge' = NoArray
                   /\ captured_total' = Zeros(ny, Width)
                   /\ released_total' = Zeros(ny, Width)
                   /\ output' = NoArray
                   /\ steps' = << >>
                   /\ entry' = [segarr |-> segarr, cti |-> cti,
                                serial_traps |-> serial_traps]
                   /\ previous' = IF pc = "done" /\ args = new
                                  THEN [valid |-> TRUE, args |-> args, output |-> output]
                                  ELSE NoPrevious
                   /\ pc' = IF do_trapping THEN "capture" ELSE "transfer"
                   /\ error' = "none"
    /\ UNCHANGED segvars
    /\ UNCHANGED imgvars

\* Lines 372-376: trap capture.  The two -= and += act on the array objects
\* in place, so they reach segarr when free_charge is that object.
Capture ==
    /\ pc = "capture"
    /\ LET captured == CapturedCharge(free_charge, trapped_charge, trap_arrays)
       IN  /\ captured_charge' = captured
           /\ trapped_charge' = ArrayPlus(trapped_charge, captured)
           /\ free_charge' = ArrayMinus(free_charge, captured)
           /\ segarr' = IF aliased THEN ArrayMinus(free_charge, captured) ELSE segarr
           /\ captured_total' = ArrayPlus(captured_total, captured)
    /\ pc' = "transfer"
    /\ UNCHANGED <<ny, nx, prescan_width, output_amplifier, cti, serial_traps,
                   do_trapping, error, args, i, image, trap_arrays, drift,
                   released_charge, aliased, output, noise_draw, released_total,
                   entry, previous, steps, call>>
    /\ UNCHANGED imgvars

\* Lines 379-388: proportional loss, recording of column i, and the shift.
\* Line 388 binds free_charge to a new array.
Transfer ==
    /\ pc = "transfer"
    /\ LET transferred_charge == TransferredCharge(free_charge, cti)
           deferred_charge == DeferredCharge(free_charge, cti)
           head == [r \in 0..(ny - 1) |-> transferred_charge[r][0]]
           rows == RecordedRows(Iy(ny, args.parallel_overscan_width),
                                args.parallel_overscan_width)
           new_drift == IF args.do_bias_drift
                        THEN OffsetDrift(output_amplifier, drift, head)
                        ELSE drift
           added == IF args.do_bias_drift THEN new_drift
                                          ELSE [r \in 0..(ny - 1) |-> 0]
       IN  /\ drift' = new_drift
           /\ image' = Recorded(image, i, rows, transferred_charge, added)
           /\ steps' = Append(steps, [column |-> i, charge |-> head,
                                      drift_called |-> args.do_bias_drift,
                                      drift_in |-> drift, drift_out |-> new_drift])
           /\ free_charge' = ArrayPlus(PadShift(transferred_charge), deferred_charge)
    /\ aliased' = FALSE
    /\ IF do_trapping
       THEN /\ pc' = "release"
            /\ i' = i
       ELSE /\ i' = i + 1
            /\ pc' = IF i + 1 < WidthOf(image) THEN "transfer" ELSE "return"
    /\ UNCHANGED <<segvars, error, args, trapped_charge, trap_arrays,
                   captured_charge, released_charge, output, noise_draw,
                   captured_total, released_total, entry, previous, call>>
    /\ UNCHANGED imgvars

\* Lines 391-394: trap emission, and the loop's next turn.
Release ==
    /\ pc = "release"
    /\ LET released == ReleasedCharge(trapped_charge, trap_arrays)
       IN  /\ released_charge' = released
           /\ trapped_charge' = TrappedAfterRelease(trapped_charge, released)
           /\ free_charge' = ArrayPlus(free_charge, released)
           /\ released_total' = ArrayPlus(released_total, released)
    /\ i' = i + 1
    /\ pc' = IF i + 1 < WidthOf(image) THEN "capture" ELSE "return"
    /\ UNCHANGED <<segvars, error, args, image, trap_arrays, drift,
                   captured_charge, aliased, output, noise_draw, captured_total,
                   entry, previous, steps, call>>
    /\ UNCHANGED imgvars

\* Line 396: return image/float(self.output_amplifier.gain)
Return ==
    /\ pc = "return"
    /\ output' = GainDivided(image, output_amplifier.gain)
    /\ pc' = "done"
    /\ UNCHANGED <<segvars, error, args, i, image, free_charge, trapped_charge,
                   trap_arrays, drift, captured_charge, released_charge, aliased,
                   noise_draw, captured_total, released_total, entry, previous,
                   steps, call>>
    /\ UNCHANGED imgvars

\* ------------------------------------------------------------ specifications
\* A segment on which no trap is registered: every amplifier, every cti,
\* flat and ramp exposures, readouts with and without bias drift.
Init == Constructed(AmpInputs, 0..(CtiDen - 1), MaxIx)

Next ==
    \/ \E signal \in 1..MaxLevel, noise \in BOOLEAN : FlatfieldExp(signal, noise)
    \/ \E signal_list \in RampInputs : RampExp(signal_list)
    \/ \E sow \in 0..MaxIx, pow \in 0..MaxIy, dbd \in BOOLEAN :
           SimulateReadout(sow, pow, dbd)
    \/ Transfer
    \/ Return

Spec == Init /\ [][Next]_vars

\* A segment with traps: add_trap with every trap of TrapInputs, flat
\* exposures without shot noise, the noiseless amplifier with bias drift, and
\* a register that leaves room for at least one serial-overscan column.
TrapAmpInputs == {Amplifier(2, 0, 0, 1, 1, Unit)}
TrapCtiInputs == {0, 1}

\* The traps the constructor is given: None, one trap, the empty list, and
\* the lists of up to MaxTraps traps, at the head column and next to it.
ConstructorTraps ==
    LET some == TrapInputs(0)
    IN  {NoTraps} \cup {OneTrap(t) : t \in some}
        \cup {TrapList(list) : list \in UNION {[1..len -> some] : len \in 0..MaxTraps}}

InitTraps == ConstructedWith(TrapAmpInputs, TrapCtiInputs, MaxIx - 1, ConstructorTraps)

NextTraps ==
    \/ \E t \in TrapInputs(Width) : AddTrap(t)
    \/ \E signal \in 1..MaxLevel : FlatfieldExp(signal, FALSE)
    \/ \E sow \in 0..MaxIx, pow \in 0..MaxIy, dbd \in BOOLEAN :
           SimulateReadout(sow, pow, dbd)
    \/ Capture
    \/ Transfer
    \/ Release
    \/ Return

SpecTraps == InitTraps /\ [][NextTraps]_vars

\* A segment and its exposure methods: flat fields, ramps, Fe55 hits and
\* reset, read out by the ideal amplifier.
ExposureAmpInputs == {Amplifier(1, 0, 0, 0, 0, 0)}
ExposureCtiInputs == {0, 1}

InitExposures == Constructed(ExposureAmpInputs, ExposureCtiInputs, MaxIx)

NextExposures ==
    \/ \E signal \in 1..MaxLevel : FlatfieldExp(signal, FALSE)
    \/ \E signal_list \in RampInputs : RampExp(signal_list)
    \/ \E num_fe55_hits \in 0..MaxHits, stamp_length \in 1..MaxStamp :
           Fe55Exp(num_fe55_hits, stamp_length)
    \/ Reset
    \/ \E sow \in 0..MaxIx, pow \in 0..MaxIy :
           SimulateReadout(sow, pow, FALSE)
    \/ Transfer
    \/ Return

SpecExposures == InitExposures /\ [][NextExposures]_vars

\* ------------------------------------------------------------------ checks
\* simulate_readout has drawn its noise image and not yet ended.
InLoop == pc \in {"capture", "transfer", "release", "return"}
\* The arrays of a readout are there: it is in its loop or has returned.
Ran == InLoop \/ pc = "done"
\* The loop is at the top of a turn (or past its last).
AtTurn == pc = "capture" \/ pc = "return" \/ (pc = "transfer" /\ ~do_trapping)

\* Every product formed so far was of a multiple of its denominator: at
\* the top of turn i the charges are multiples of 2 * StepDen^(MaxIx - i).
ExactArithmetic ==
    AtTurn =>
        \A r \in DOMAIN free_charge : \A c \in DOMAIN free_charge[r] :
            /\ free_charge[r][c] % (2 * Pow(StepDen, MaxIx - i)) = 0
            /\ trapped_charge[r][c] % (2 * Pow(StepDen, MaxIx - i)) = 0

Noiseless == output_amplifier.noise = 0
ImageRows == 0..(ny - 1)
RegisterCols == 0..(Width - 1)
\* The rows and columns of the output array the arguments ask for.
OutRows == 0..(ny + args.parallel_overscan_width - 1)
OutCols == 0..(prescan_width + nx + args.serial_overscan_width - 1)

\* C1: with cti = 0, no trap, amplifier noise 0 and offset 0 and no bias
\* drift, the returned array holds exposure/gain in every register column
\* of every image row and 0 in the serial overscan columns and the parallel
\* overscan rows; with gain 1 each row's output sums to its exposure.
C1_ZeroCtiReproducesExposure ==
    (/\ pc = "done"
     /\ cti = 0
     /\ serial_traps = << >>
     /\ Noiseless
     /\ output_amplifier.offset = 0
     /\ ~args.do_bias_drift)
    => /\ \A r \in ImageRows : \A j \in RegisterCols :
             output[r][j] * output_amplifier.gain = segarr[r][j]
       /\ \A r \in OutRows : \A j \in OutCols :
             (r >= ny \/ j >= Width) => output[r][j] = 0
       /\ output_amplifier.gain = 1 =>
             \A r \in ImageRows : RowSum(output[r]) = RowSum(segarr[r])

\* C1's case: a readout with gain 2, both overscans, and an exposure whose
\* columns differ.
C1_Witness ==
    /\ pc = "done"
    /\ cti = 0
    /\ Noiseless
    /\ output_amplifier.offset = 0
    /\ output_amplifier.gain = 2
    /\ ~args.do_bias_drift
    /\ args.serial_overscan_width = 1
    /\ args.parallel_overscan_width = 1
    /\ Width = 2
    /\ segarr[0][0] # segarr[0][1]
    /\ segarr[0][1] > 0

\* The charge of row r recorded into the output so far, before the gain.
RecordedSoFar(r) ==
    LET net == [c \in DOMAIN image[r] |-> image[r][c] - noise_draw[r][c]]
    IN  RowSum(net)

\* C2: with no noise and no bias drift, at every step of a readout and in
\* every row, free charge + trapped charge + charge recorded so far is the
\* row's exposure total at the start of the readout, whatever cti and traps.
C2_ChargeConserved ==
    (Ran /\ Noiseless /\ ~args.do_bias_drift)
    => \A r \in ImageRows :
          RowSum(free_charge[r]) + RowSum(trapped_charge[r]) + RecordedSoFar(r)
             = RowSum(entry.segarr[r])

\* C2's case: a finished readout with cti > 0 and a trap still holding charge.
C2_Witness ==
    /\ pc = "done"
    /\ ~args.do_bias_drift
    /\ cti > 0
    /\ \E r \in ImageRows : \E c \in RegisterCols :
          /\ trapped_charge[r][c] > 0
          /\ RecordedSoFar(r) > 0
          /\ RowSum(free_charge[r]) > 0

\* The register columns the registered traps sit at.
TrapColumns == {ColumnOf(serial_traps[k].pixel, Width) : k \in 1..Len(serial_traps)}

\* C3: over a full readout, for every trap and row, the charge captured at
\* all steps is the charge released at all steps plus the final occupancy.
C3_TrapConservation ==
    pc = "done" =>
        \A c \in TrapColumns : \A r \in ImageRows :
            captured_total[r][c] = released_total[r][c] + trapped_charge[r][c]

\* C3's case: a trap that captured, released, and ends the run occupied.
C3_Witness ==
    /\ pc = "done"
    /\ \E c \in TrapColumns : \E r \in ImageRows :
          /\ released_total[r][c] > 0
          /\ trapped_charge[r][c] > 0
          /\ captured_total[r][c] > released_total[r][c]

\* C4: during a readout every occupancy is within [0, capacity], and the
\* amount a capture step captures is never negative.
C4_OccupancyBounded ==
    Ran =>
        /\ \A r \in ImageRows : \A c \in RegisterCols :
              /\ 0 <= trapped_charge[r][c]
              /\ do_trapping => trapped_charge[r][c] <= trap_arrays.size[r][c]
              /\ ~do_trapping => trapped_charge[r][c] = 0
        /\ captured_charge # NoArray =>
              \A r \in ImageRows : \A c \in RegisterCols : captured_charge[r][c] >= 0

\* C4's case: right after a capture that filled a trap to its capacity
\* from a pixel holding more than the trap can take.
C4_Witness ==
    /\ pc = "transfer"
    /\ do_trapping
    /\ \E r \in ImageRows : \E c \in TrapColumns :
          /\ captured_charge[r][c] > 0
          /\ trapped_charge[r][c] = trap_arrays.size[r][c]
          /\ free_charge[r][c] > 0

\* C5: a readout leaves the stored exposure, cti and trap list as they
\* were when it was called.
C5_StoredStateUnchanged ==
    Ran => /\ segarr = entry.segarr
           /\ cti = entry.cti
           /\ serial_traps = entry.serial_traps

\* C5's case: a finished readout with bias drift whose working copy was
\* changed by captures.
C5_Witness ==
    /\ pc = "done"
    /\ args.do_bias_drift
    /\ \E r \in ImageRows : \E c \in RegisterCols : captured_total[r][c] > 0
    /\ \E r \in ImageRows : drift[r] > 0

\* C6: a readout that follows another of the same state with the same
\* arguments, without noise or bias drift, returns the same array.
C6_ReadoutsRepeat ==
    (pc = "done" /\ previous.valid /\ Noiseless /\ ~args.do_bias_drift)
    => output = previous.output

\* C6's case: the second of two readouts, the first of which ended with a
\* trap still occupied.
C6_Witness ==
    /\ pc = "done"
    /\ previous.valid
    /\ ~args.do_bias_drift
    /\ \E r \in ImageRows : \E c \in RegisterCols :
          trapped_charge[r][c] > 0 /\ released_total[r][c] > 0

\* C7: the returned array has ny + parallel_overscan_width rows of
\* prescan_width + nx + serial_overscan_width columns, and its parallel
\* overscan rows hold the noise draw divided by the gain.
C7_OutputShape ==
    pc = "done" =>
        /\ DOMAIN output = OutRows
        /\ \A r \in OutRows : DOMAIN output[r] = OutCols
        /\ \A r \in OutRows : \A c \in OutCols :
              r >= ny => output[r][c] * output_amplifier.gain = noise_draw[r][c]

\* C7's case: a noisy readout with bias drift of an exposed segment with a
\* prescan and both overscans.
C7_Witness ==
    /\ pc = "done"
    /\ args.parallel_overscan_width = 1
    /\ args.serial_overscan_width = 1
    /\ prescan_width = 1
    /\ output_amplifier.noise > 0
    /\ args.do_bias_drift
    /\ segarr[0][1] > Unit

\* ----------------------------------- simulate_readout as one computation
\* One turn of the loop of lines 369-394 on column col: the locals after it.
LoopTurn(st, col, ctiN, trapping, ta, oa, rows, dbd) ==
    LET captured == IF trapping THEN CapturedCharge(st.free_charge, st.trapped_charge, ta)
                    ELSE st.trapped_charge
        trapped1 == IF trapping THEN ArrayPlus(st.trapped_charge, captured)
                    ELSE st.trapped_charge
        free1 == IF trapping THEN ArrayMinus(st.free_charge, captured)
                 ELSE st.free_charge
        transferred_charge == TransferredCharge(free1, ctiN)
        deferred_charge == DeferredCharge(free1, ctiN)
        head == [r \in DOMAIN free1 |-> transferred_charge[r][0]]
        drift1 == IF dbd THEN OffsetDrift(oa, st.drift, head) ELSE st.drift
        added == IF dbd THEN drift1 ELSE [r \in DOMAIN free1 |-> 0]
        free2 == ArrayPlus(PadShift(transferred_charge), deferred_charge)
        released == ReleasedCharge(trapped1, ta)
    IN  [image |-> Recorded(st.image, col, rows, transferred_charge, added),
         free_charge |-> IF trapping THEN ArrayPlus(free2, released) ELSE free2,
         trapped_charge |-> IF trapping THEN TrappedAfterRelease(trapped1, released)
                            ELSE trapped1,
         drift |-> drift1]

RECURSIVE ReadoutLoop(_, _, _, _, _, _, _, _, _)
ReadoutLoop(st, col, ix, ctiN, trapping, ta, oa, rows, dbd) ==
    IF col >= ix THEN st
    ELSE ReadoutLoop(LoopTurn(st, col, ctiN, trapping, ta, oa, rows, dbd),
                     col + 1, ix, ctiN, trapping, ta, oa, rows, dbd)

\* seg.simulate_readout(serial_overscan_width, parallel_overscan_width,
\* do_bias_drift) of a segment seg of geometry h, n, prescan with amplifier
\* oa and noise image draw: the exception raised, or the array returned.
ReadoutOf(seg, h, n, prescan, oa, sow, pow, dbd, draw) ==
    LET made == MakeTrapArrays(seg.serial_traps, h, n + prescan)
        st0 == [image |-> draw,
                free_charge |-> seg.segarr,
                trapped_charge |-> InitialTrappedCharge(NoArray, h, n + prescan),
                drift |-> [r \in 0..(h - 1) |-> 0]]
        last == ReadoutLoop(st0, 0, Ix(n, prescan, sow), seg.cti, seg.do_trapping,
                            made, oa, RecordedRows(Iy(h, pow), pow), dbd)
    IN  IF seg.do_trapping /\ made.err # "none"
        THEN [err |-> made.err, image |-> NoArray]
        ELSE [err |-> "none", image |-> GainDivided(last.image, oa.gain)]

\* The step-by-step readout returns what the one computation gives.
StepwiseAgrees ==
    pc = "done" =>
        output = ReadoutOf([segarr |-> segarr, cti |-> cti, serial_traps |-> serial_traps,
                            do_trapping |-> do_trapping],
                           ny, nx, prescan_width, output_amplifier,
                           args.serial_overscan_width, args.parallel_overscan_width,
                           args.do_bias_drift, noise_draw).image

\* Two registered traps have the same column index.
DuplicateRegistered ==
    \E k, l \in 1..Len(serial_traps) :
        k # l /\ serial_traps[k].pixel = serial_traps[l].pixel

C10_OutOfRangeTrapRejected ==
    Ran => \A k \in 1..Len(serial_traps) :
              0 <= serial_traps[k].pixel /\ serial_traps[k].pixel < prescan_width + nx

\* ------------------------------------------------- ImageSimulator (14-241)
\* range(1, 17): the channels of a sensor
NumChannels == 16
Channels == 1..NumChannels

\* No SegmentSimulator is used on its own: the sensor's segments are in
\* segments.
NoSegment ==
    /\ ny = 0 /\ nx = 0 /\ prescan_width = 0
    /\ segarr = NoArray
    /\ output_amplifier = << >>
    /\ cti = 0
    /\ serial_traps = << >>
    /\ do_trapping = FALSE
    /\ pc = "none"
    /\ error = "none"
    /\ args = NoArgs
    /\ i = 0
    /\ image = NoArray
    /\ free_charge = NoArray
    /\ trapped_charge = NoArray
    /\ trap_arrays = NoTrapArrays
    /\ drift = << >>
    /\ captured_charge = NoArray
    /\ released_charge = NoArray
    /\ aliased = FALSE
    /\ output = NoArray
    /\ noise_draw = NoArray
    /\ captured_total = NoArray
    /\ released_total = NoArray
    /\ entry = NoEntry
    /\ previous = NoPrevious
    /\ steps = << >>
    /\ call = NoCall

\* The amp_geom records: ny, nx, prescan_width, serial_overscan_width and
\* naxis2 - ny, within MaxIy rows and MaxIx columns (lines 68-72).
AmpGeomInputs ==
    {g \in [ny : 1..MaxIy, nx : 1..MaxIx, prescan_width : 0..MaxPrescan,
            serial_overscan_width : 0..MaxIx, parallel_overscan_width : 0..MaxIy] :
        /\ g.ny + g.parallel_overscan_width <= MaxIy
        /\ g.nx + g.prescan_width + g.serial_overscan_width <= MaxIx}

\* cti_dict: None (0.0 for every channel, line 75), or a cti per channel.
CtiDictInputs == {[ch \in Channels |-> 0], [ch \in Channels |-> ch % CtiDen]}

\* traps_dict: None (line 81), or a trap at the head of the register of
\* every second channel.
TrapsDictInputs ==
    {[ch \in Channels |-> << >>],
     [ch \in Channels |-> IF ch % 2 = 0 THEN <<Trap(Unit, TrapDen, 1, 0, 0)>> ELSE << >>]}

\* output_amplifiers: an OutputAmplifier object of its own for every
\* channel, or one object for all.  ref names the object of a channel, obj
\* the objects.
OutputAmplifiersInputs ==
    {[ref |-> [ch \in Channels |-> ch],
      obj |-> [ch \in Channels |-> Amplifier(1 + (ch % 2), 0, 0, 1, 1, Unit)]],
     [ref |-> [ch \in Channels |-> 1],
      obj |-> [ch \in {1} |-> Amplifier(2, 0, 0, 1, 1, Unit)]]}

\* ImageSimulator.from_amp_geom (lines 64-96): a SegmentSimulator of zeros
\* per channel; the constructor registers the channel's traps (266-272).
InitImage ==
    /\ NoSegment
    /\ sensor \in AmpGeomInputs
    /\ \E cti_dict \in CtiDictInputs, traps_dict \in TrapsDictInputs,
          output_amplifiers \in OutputAmplifiersInputs :
          /\ amplifiers = output_amplifiers.obj
          /\ segments = [ch \in Channels |->
                [segarr |-> Zeros(sensor.ny, sensor.nx + sensor.prescan_width),
                 cti |-> cti_dict[ch],
                 serial_traps |-> traps_dict[ch],
                 do_trapping |-> traps_dict[ch] # << >>,
                 output_amplifier |-> output_amplifiers.ref[ch]]]
    /\ img_pc = "idle"
    /\ img_error = "none"
    /\ img_args = << >>
    /\ segarr_dict = << >>
    /\ amp = 0
    /\ fitted = << >>

ImageCallable == img_pc \in {"idle", "done"}

\* ImageSimulator.flatfield_exp(signal, noise=False), lines 191-202
ImageFlatfieldExp(signal) ==
    /\ ImageCallable
    /\ \A ch \in Channels :
          MaxPixel(segments[ch].segarr) + signal * Unit <= MaxLevel * Unit
    /\ segments' = [ch \in Channels |->
          [segments[ch] EXCEPT !.segarr =
              AddToImageRegion(@, sensor.prescan_width,
                  [r \in 0..(sensor.ny - 1) |-> [c \in 0..(sensor.nx - 1) |->
                      signal * Unit]])]]
    /\ img_pc' = "idle"
    /\ img_error' = "none"
    /\ img_args' = << >>
    /\ segarr_dict' = << >>
    /\ amp' = 0
    /\ UNCHANGED <<sensor, amplifiers, fitted, segvars, rovars, pc, error>>

\* ImageSimulator.simulate_readout, lines 143-157.  The module is imported
\* as multiprocessing (line 6) and no name mp is bound, so line 148 raises
\* NameError before any worker is made.
ImageSimulateReadout(use_multiprocessing, do_bias_drift) ==
    /\ ImageCallable
    /\ img_args' = [use_multiprocessing |-> use_multiprocessing,
                    do_bias_drift |-> do_bias_drift]
    /\ segarr_dict' = << >>
    /\ IF use_multiprocessing
       THEN /\ img_pc' = "idle"
            /\ img_error' = "NameError"
            /\ amp' = 0
       ELSE /\ img_pc' = "loop"
            /\ img_error' = "none"
            /\ amp' = 1
    /\ UNCHANGED <<sensor, segments, amplifiers, fitted, segvars, rovars, pc, error>>

\* What segment_readout(segarr_dict, amp, do_bias_drift) gets from the
\* channel's simulate_readout (lines 186-188).
ChannelReadout(ch, do_bias_drift, draw) ==
    ReadoutOf(segments[ch], sensor.ny, sensor.nx, sensor.prescan_width,
              amplifiers[segments[ch].output_amplifier],
              sensor.serial_overscan_width, sensor.parallel_overscan_width,
              do_bias_drift, draw)

\* One turn of the loop of lines 158-159: segment_readout (175-189).
SegmentReadout ==
    /\ img_pc = "loop"
    /\ \E draw \in NoiseDraws(amplifiers[segments[amp].output_amplifier],
                              Iy(sensor.ny, sensor.parallel_overscan_width),
                              Ix(sensor.nx, sensor.prescan_width,
                                 sensor.serial_overscan_width)) :
          LET im == ChannelReadout(amp, img_args.do_bias_drift, draw)
          IN  IF im.err # "none"
              THEN /\ img_pc' = "idle"
                   /\ img_error' = im.err
                   /\ segarr_dict' = segarr_dict
                   /\ amp' = amp
              ELSE /\ segarr_dict' = [ch \in (DOMAIN segarr_dict) \cup {amp} |->
                                         IF ch = amp THEN im.image ELSE segarr_dict[ch]]
                   /\ img_error' = "none"
                   /\ IF amp < NumChannels
                      THEN amp' = amp + 1 /\ img_pc' = "loop"
                      ELSE amp' = amp /\ img_pc' = "write"
    /\ UNCHANGED <<sensor, segments, amplifiers, img_args, fitted, segvars, rovars, pc,
                   error>>

\* Lines 162-173: the arrays go to the output file and segarr_dict is
\* returned.
WriteAndReturn ==
    /\ img_pc = "write"
    /\ img_pc' = "done"
    /\ UNCHANGED <<sensor, segments, amplifiers, img_args, img_error, segarr_dict,
                   amp, fitted, segvars, rovars, pc, error>>

NextImage ==
    \/ \E signal \in 1..MaxLevel : ImageFlatfieldExp(signal)
    \/ \E use_multiprocessing \in BOOLEAN, dbd \in BOOLEAN :
           ImageSimulateReadout(use_multiprocessing, dbd)
    \/ SegmentReadout
    \/ WriteAndReturn

SpecImage == InitImage /\ [][NextImage]_vars

\* ------------------------------------------- update_parameters (98-121)
\* SerialTrap(size, scaling, emission_time, pixel, threshold) of ctisim.core:
\* the trap with these attributes.
SerialTrap(size, scaling, emission_time, pixel, threshold) ==
    Trap(size, scaling, emission_time, pixel, threshold)

\* A fitted time constant tau, as the two fields of a trap hold it: as a
\* scaling it is tau in TrapDen-ths, as an emission time the numerator of
\* exp(-1/tau) over TrapDen.
Tau(as_scaling, as_emission_time) ==
    [as_scaling |-> as_scaling, as_emission_time |-> as_emission_time]

\* The tables update_parameters reads (lines 103-109), a value per channel:
\* one with different values on every channel and no trap on every third,
\* and one with the same values and a trap on every channel.  tau is 0 or 1
\* (exp(-1) taken as 1/TrapDen); sizes and thresholds are in Units.
FitInputs ==
    {[CTI |-> [ch \in Channels |-> ch % CtiDen],
      DRIFT_SIZE |-> [ch \in Channels |-> ch],
      DRIFT_TAU |-> [ch \in Channels |-> ch % TrapDen],
      DRIFT_THRESHOLD |-> [ch \in Channels |-> ch * Unit],
      TRAP_SIZE |-> [ch \in Channels |-> IF ch % 3 = 0 THEN 0 ELSE Unit],
      TRAP_TAU |-> [ch \in Channels |-> IF ch % 2 = 0 THEN Tau(0, 0) ELSE Tau(TrapDen, 1)]],
     [CTI |-> [ch \in Channels |-> 1],
      DRIFT_SIZE |-> [ch \in Channels |-> 2],
      DRIFT_TAU |-> [ch \in Channels |-> 1],
      DRIFT_THRESHOLD |-> [ch \in Channels |-> Unit],
      TRAP_SIZE |-> [ch \in Channels |-> 2 * Unit],
      TRAP_TAU |-> [ch \in Channels |-> Tau(TrapDen, 1)]]}

\* line 110: trap_dfactor = data['TRAP_TAU']
TrapDfactor(data) == data.TRAP_TAU

\* lines 115-116: the trap of channel ch, at pixel 0 with threshold 1
FittedTrap(data, ch) ==
    SerialTrap(data.TRAP_SIZE[ch], TrapDfactor(data)[ch].as_scaling,
               data.TRAP_TAU[ch].as_emission_time, 0, 1 * Unit)

\* lines 119-121, on the amplifier object the channel refers to
FittedAmplifier(oa, data, ch) ==
    [oa EXCEPT !.drift_scale = data.DRIFT_SIZE[ch],
               !.decay_time = data.DRIFT_TAU[ch],
               !.threshold = data.DRIFT_THRESHOLD[ch]]

\* The loop of lines 112-121 from channel ch on; st holds the segments and
\* the amplifier objects.
RECURSIVE UpdateChannels(_, _, _)
UpdateChannels(st, ch, data) ==
    IF ch > NumChannels THEN st
    ELSE LET seg == st.segments[ch]
             had == [serial_traps |-> seg.serial_traps, do_trapping |-> seg.do_trapping]
             has == IF data.TRAP_SIZE[ch] > 0
                    THEN AfterAddTrap(had, FittedTrap(data, ch))
                    ELSE had
             ref == seg.output_amplifier
         IN  UpdateChannels(
                 [segments |-> [st.segments EXCEPT ![ch] =
                                   [seg EXCEPT !.serial_traps = has.serial_traps,
                                               !.do_trapping = has.do_trapping,
                                               !.cti = data.CTI[ch]]],
                  amplifiers |-> [st.amplifiers EXCEPT ![ref] =
                                     FittedAmplifier(@, data, ch)]],
                 ch + 1, data)

\* update_parameters(parameter_results), data the table of the file
UpdateParameters(data) ==
    /\ ImageCallable
    /\ \A ch \in Channels : Len(segments[ch].serial_traps) < MaxTraps
    /\ LET st == UpdateChannels([segments |-> segments, amplifiers |-> amplifiers],
                                1, data)
       IN  /\ segments' = st.segments
           /\ amplifiers' = st.amplifiers
    /\ fitted' = data
    /\ img_pc' = "idle"
    /\ img_error' = "none"
    /\ img_args' = << >>
    /\ segarr_dict' = << >>
    /\ amp' = 0
    /\ UNCHANGED <<sensor, segvars, rovars, pc, error>>

\* A sensor whose parameters are fitted and which is read out channel by
\* channel.
NextUpdate ==
    \/ \E data \in FitInputs : UpdateParameters(data)
    \/ \E signal \in 1..MaxLevel : ImageFlatfieldExp(signal)
    \/ \E dbd \in BOOLEAN : ImageSimulateReadout(FALSE, dbd)
    \/ SegmentReadout
    \/ WriteAndReturn

SpecUpdate == InitImage /\ [][NextUpdate]_vars

\* An ImageSimulator.simulate_readout call has ended, by return or by raise.
ImageCallEnded == img_args # << >> /\ ImageCallable

\* The call returned the sixteen arrays of the channels' own readouts.
ReturnedSixteen ==
    /\ img_pc = "done"
    /\ img_error = "none"
    /\ DOMAIN segarr_dict = Channels
    /\ \A ch \in Channels :
          \E draw \in NoiseDraws(amplifiers[segments[ch].output_amplifier],
                                 Iy(sensor.ny, sensor.parallel_overscan_width),
                                 Ix(sensor.nx, sensor.prescan_width,
                                    sensor.serial_overscan_width)) :
              segarr_dict[ch] = ChannelReadout(ch, img_args.do_bias_drift, draw).image

\* C8: ImageSimulator.simulate_readout returns the sixteen arrays, keyed
\* 1..16, of the channels' simulate_readout, with use_multiprocessing False
\* and with use_multiprocessing True.
C8_SixteenArraysBothModes == ImageCallEnded => ReturnedSixteen

\* What the code does: the sequential mode returns the sixteen arrays and
\* the multiprocessing mode raises NameError and returns nothing.
SequentialReturnsSixteen ==
    ImageCallEnded =>
        IF img_args.use_multiprocessing
        THEN img_pc = "idle" /\ img_error = "NameError" /\ segarr_dict = << >>
        ELSE ReturnedSixteen

\* ------------------------------------------------------ exposure methods
\* The image region of the stored exposure is all zero.
ImageRegionZero ==
    \A r \in ImageRows : \A c \in RegisterCols : c >= prescan_width => segarr[r][c] = 0

\* C11: reset() completes without error and leaves every image-region
\* pixel of the stored exposure 0.
C11_ResetClearsExposure ==
    call.op = "reset" => (error = "none" /\ ImageRegionZero)

\* What the code does: reset() raises AttributeError and leaves the
\* exposure as it was.
ResetRaises ==
    call.op = "reset" => (error = "AttributeError" /\ segarr = call.before)

\* C12: ramp_exp(signal_list) raises and leaves the stored exposure as it
\* was when len(signal_list) # ny; otherwise it adds signal_list[r] to every
\* image-region pixel of row r and leaves the prescan columns as they were.
C12_RampExp ==
    call.op = "ramp_exp" =>
        IF Len(call.arg.signal_list) # ny
        THEN error = "ValueError" /\ segarr = call.before
        ELSE /\ error = "none"
             /\ \A r \in ImageRows : \A c \in RegisterCols :
                   segarr[r][c] = call.before[r][c] +
                       (IF c >= prescan_width THEN call.arg.signal_list[r + 1] * Unit
                                              ELSE 0)

\* C12's case: ramp_exp has refused a list longer than ny on a segment
\* with a prescan whose exposure already held charge.
C12_Witness ==
    /\ call.op = "ramp_exp"
    /\ Len(call.arg.signal_list) > ny
    /\ error = "ValueError"
    /\ prescan_width = 1
    /\ ~ImageRegionZero

\* The request of an fe55_exp call: hits asked for and the stamp's side.
Fe55Asked == call.op = "fe55_exp" /\ call.arg.num_fe55_hits > 0

\* C15: fe55_exp fails exactly when the stamp has more rows than ny or
\* more columns than nx; a failing call adds no charge, and a stamp that
\* fits, also one as large as the image region, is placed.
C15_Fe55FailsOnlyBeyondRegion ==
    Fe55Asked =>
        /\ (error # "none") <=>
               (call.arg.stamp_length > ny \/ call.arg.stamp_length > nx)
        /\ error # "none" => segarr = call.before
        /\ error = "none" => segarr # call.before

\* What the code does: fe55_exp fails as soon as the stamp has as many rows
\* as ny or as many columns as nx.
Fe55FailsFromExactFit ==
    Fe55Asked =>
        /\ (error # "none") <=>
               (call.arg.stamp_length >= ny \/ call.arg.stamp_length >= nx)
        /\ error # "none" => segarr = call.before
        /\ error = "none" => segarr # call.before

\* ------------------------------------------------------- cti monotonicity
\* Every row of the exposure is one positive signal over the image columns,
\* as flatfield_exp without shot noise and ramp_exp leave it.
UniformRows ==
    \A r \in ImageRows : \A c \in RegisterCols :
        c >= prescan_width => (segarr[r][c] = segarr[r][prescan_width] /\ segarr[r][c] > 0)

\* What the finished readout would have returned had cti been ctiN.
OutputAt(ctiN) ==
    ReadoutOf([segarr |-> segarr, cti |-> ctiN, serial_traps |-> serial_traps,
               do_trapping |-> do_trapping],
              ny, nx, prescan_width, output_amplifier,
              args.serial_overscan_width, args.parallel_overscan_width,
              args.do_bias_drift, noise_draw).image

\* Row r of out, summed over the columns lo .. hi.
RECURSIVE ColumnsTotal(_, _, _, _)
ColumnsTotal(out, r, lo, hi) ==
    IF lo > hi THEN 0 ELSE out[r][hi] + ColumnsTotal(out, r, lo, hi - 1)

LastImageColumn == prescan_width + nx - 1
OverscanTotal(out, r) == ColumnsTotal(out, r, Width, Width + args.serial_overscan_width - 1)
RegisterTotal(out, r) == ColumnsTotal(out, r, 0, Width - 1)

\* A finished readout of a positive flat or ramp exposure without traps,
\* noise or drift, into at least one serial overscan column.
MonotonicityCase ==
    /\ pc = "done"
    /\ serial_traps = << >>
    /\ Noiseless
    /\ ~args.do_bias_drift
    /\ UniformRows
    /\ args.serial_overscan_width >= 1

\* C14, as claimed: for cti < cti2 the value recorded at the last image
\* column is strictly smaller with cti2 and the total recorded in the
\* serial overscan columns strictly larger.
C14_CtiMonotonic ==
    MonotonicityCase =>
        \A cti2 \in 0..(CtiDen - 1) : \A r \in ImageRows :
            cti < cti2 =>
                /\ OutputAt(cti2)[r][LastImageColumn] < output[r][LastImageColumn]
                /\ OverscanTotal(OutputAt(cti2), r) > OverscanTotal(output, r)

\* C14, amended: for cti < cti2 the value recorded at the last image column
\* and the total recorded in the register's columns are strictly smaller
\* with cti2 (more charge is deferred past the last image column); the
\* total recorded in the serial overscan columns is strictly larger than
\* with cti = 0, where it is 0.
C14_CtiMonotonicInRegister ==
    MonotonicityCase =>
        \A cti2 \in 0..(CtiDen - 1) : \A r \in ImageRows :
            cti < cti2 =>
                /\ OutputAt(cti2)[r][LastImageColumn] < output[r][LastImageColumn]
                /\ RegisterTotal(OutputAt(cti2), r) < RegisterTotal(output, r)
                /\ cti = 0 => /\ OverscanTotal(output, r) = 0
                              /\ OverscanTotal(OutputAt(cti2), r) > 0

\* C14's case: a readout with 0 < cti, where a larger cti
\* leaves no more in the overscan columns than this one.
C14_Witness ==
    /\ MonotonicityCase
    /\ cti > 0
    /\ \E cti2 \in 0..(CtiDen - 1) :
          /\ cti < cti2
          /\ OverscanTotal(OutputAt(cti2), 0) <= OverscanTotal(output, 0)
          /\ OutputAt(cti2)[0][LastImageColumn] < output[0][LastImageColumn]

\* ---------------------------------------------------- the transfer step
\* Column j of row r of the register, and 0 beyond its right end.
ChargeAt(arr, r, j) == IF j \in DOMAIN arr[r] THEN arr[r][j] ELSE 0

\* The step records (1 - cti) x free_charge[:, 0] in column i (no drift).
RecordsHead ==
    ~args.do_bias_drift =>
        \A r \in ImageRows :
            (image'[r][i] - image[r][i]) * CtiDen = (CtiDen - cti) * free_charge[r][0]

\* C16, as claimed: a transfer step splits only the head column: it
\* records (1 - cti) x column 0, every column j >= 1 becomes the old column
\* j+1 (0 at the right end), and column 0 becomes the old column 1 plus
\* cti x the old column 0.
C16_HeadOnlySplit ==
    [][Transfer =>
          /\ RecordsHead
          /\ \A r \in ImageRows : \A j \in RegisterCols :
                free_charge'[r][j] * CtiDen =
                    IF j = 0
                    THEN CtiDen * ChargeAt(free_charge, r, 1) + cti * free_charge[r][0]
                    ELSE CtiDen * ChargeAt(free_charge, r, j + 1)]_vars

\* C16, amended: a transfer step splits every column: it records
\* (1 - cti) x column 0, and every column j becomes (1 - cti) x the old
\* column j+1 (0 at the right end) plus cti x the old column j.
C16_EveryColumnSplit ==
    [][Transfer =>
          /\ RecordsHead
          /\ \A r \in ImageRows : \A j \in RegisterCols :
                free_charge'[r][j] * CtiDen =
                    (CtiDen - cti) * ChargeAt(free_charge, r, j + 1)
                        + cti * free_charge[r][j]]_vars

\* C16's case: after the first transfer step with cti > 0 the last column
\* of a register of two or more keeps the charge it deferred.
C16_Witness ==
    /\ pc = "transfer"
    /\ i = 1
    /\ cti > 0
    /\ Width >= 2
    /\ free_charge[0][Width - 1] > 0
    /\ free_charge[0][0] > free_charge[0][Width - 1]

\* ------------------------------------------------------- non-negativity
\* C17: during a readout the free charge of every register pixel is >= 0
\* after every capture, transfer and release step, and without noise and
\* bias drift every value recorded into the output is >= 0.
C17_ChargeNonNegative ==
    Ran =>
        /\ \A r \in ImageRows : \A c \in RegisterCols : free_charge[r][c] >= 0
        /\ (Noiseless /\ ~args.do_bias_drift) =>
              /\ \A r \in OutRows : \A c \in OutCols : image[r][c] >= 0
              /\ pc = "done" => \A r \in OutRows : \A c \in OutCols : output[r][c] >= 0

\* C17's case: a capture step has taken all the free charge of a pixel,
\* in a readout without bias drift.
C17_Witness ==
    /\ pc = "transfer"
    /\ do_trapping
    /\ ~args.do_bias_drift
    /\ \E r \in ImageRows : \E c \in TrapColumns :
          /\ captured_charge[r][c] > 0
          /\ free_charge[r][c] = 0

\* ------------------------------------------------ steps and bias drift
\* The transfer steps the readout has made so far.
StepsMade == IF pc = "release" THEN i + 1 ELSE i

\* C18: a readout makes prescan_width + nx + serial_overscan_width
\* transfer steps, step k writing output column k.  With bias drift the
\* drift update is called once per step, with the previous step's result
\* (zeros at the first step) and the step's head-column charge, and its
\* result is added to what rows 0..ny-1 record; without bias drift it is
\* never called and the transferred charge alone is recorded.
C18_StepsAndDrift ==
    Ran =>
        /\ Len(steps) = StepsMade
        /\ pc \in {"return", "done"} =>
              Len(steps) = prescan_width + nx + args.serial_overscan_width
        /\ \A k \in 1..Len(steps) :
              /\ steps[k].column = k - 1
              /\ steps[k].drift_called = args.do_bias_drift
              /\ steps[k].drift_in =
                    IF k = 1 THEN [r \in ImageRows |-> 0] ELSE steps[k - 1].drift_out
              /\ steps[k].drift_out =
                    IF args.do_bias_drift
                    THEN OffsetDrift(output_amplifier, steps[k].drift_in, steps[k].charge)
                    ELSE steps[k].drift_in
              /\ \A r \in ImageRows :
                    image[r][k - 1] = noise_draw[r][k - 1] + steps[k].charge[r]
                        + (IF args.do_bias_drift THEN steps[k].drift_out[r] ELSE 0)
        /\ \A r \in OutRows : \A c \in OutCols :
              (r >= ny \/ c >= Len(steps)) => image[r][c] = noise_draw[r][c]

\* C18's case: a finished readout of three steps with bias drift, whose
\* second step was handed a drift the first had raised, and let it decay.
C18_Witness ==
    /\ pc = "done"
    /\ args.do_bias_drift
    /\ Len(steps) = 3
    /\ steps[2].drift_in[0] > 0
    /\ steps[2].drift_out[0] < steps[2].drift_in[0]

\* ------------------------------------------------------ trapping enabled
\* C19: do_trapping is True exactly when a trap is registered, however the
\* segment was constructed and whatever add_trap calls followed; and a
\* readout of a segment without a trap makes no capture and no release
\* step and raises nothing.
C19_TrappingIffTraps ==
    /\ do_trapping <=> Len(serial_traps) > 0
    /\ (Len(serial_traps) = 0 /\ call.op = "simulate_readout") =>
          /\ error = "none"
          /\ pc \notin {"capture", "release"}
          /\ captured_charge = NoArray
          /\ released_charge = NoArray
          /\ trapped_charge = Zeros(ny, Width)

\* C19's case: add_trap has registered a second trap on a segment whose
\* flag the first had set.
C19_Witness ==
    /\ call.op = "add_trap"
    /\ Len(serial_traps) = 2
    /\ do_trapping

\* ------------------------------------------------------ fitted parameters
Updated == fitted # << >>

\* The traps of channel ch at column col.
TrapsAt(ch, col) ==
    {k \in 1..Len(segments[ch].serial_traps) : segments[ch].serial_traps[k].pixel = col}

\* C13: after update_parameters every channel whose fitted trap size is
\* positive holds exactly one trap at the fitted trap's column, with the
\* fitted size and time constant, and a following simulate_readout
\* succeeds.
C13_OneFittedTrap ==
    Updated =>
        /\ \A ch \in Channels :
              fitted.TRAP_SIZE[ch] > 0 =>
                  /\ Cardinality(TrapsAt(ch, 0)) = 1
                  /\ \A k \in TrapsAt(ch, 0) :
                        /\ segments[ch].serial_traps[k].size = fitted.TRAP_SIZE[ch]
                        /\ segments[ch].serial_traps[k].emission_time =
                              fitted.TRAP_TAU[ch].as_emission_time
        /\ ImageCallEnded => (img_error = "none" /\ img_pc = "done")

\* What the code does: every update_parameters appends a trap at column 0,
\* the last one with the fitted values, and the readout returns exactly
\* when no channel holds two traps at one column.
FittedTrapAppended ==
    Updated =>
        /\ \A ch \in Channels :
              fitted.TRAP_SIZE[ch] > 0 =>
                  LET traps == segments[ch].serial_traps
                  IN  /\ Len(traps) >= 1
                      /\ traps[Len(traps)] = FittedTrap(fitted, ch)
        /\ ImageCallEnded =>
              ((img_error = "none" /\ img_pc = "done") <=>
                  \A ch \in Channels : Cardinality(TrapsAt(ch, 0)) <= 1)

\* The amplifier object channel ch reads its parameters from.
AmplifierOf(ch) == amplifiers[segments[ch].output_amplifier]

\* Channel ch has the fitted cti and sees the fitted drift parameters.
HasFitted(ch) ==
    /\ segments[ch].cti = fitted.CTI[ch]
    /\ AmplifierOf(ch).drift_scale = fitted.DRIFT_SIZE[ch]
    /\ AmplifierOf(ch).decay_time = fitted.DRIFT_TAU[ch]
    /\ AmplifierOf(ch).threshold = fitted.DRIFT_THRESHOLD[ch]

\* Two channels refer to one OutputAmplifier object.
SharedAmplifier ==
    \E ch, other \in Channels :
        ch # other /\ segments[ch].output_amplifier = segments[other].output_amplifier

\* C20: after update_parameters every channel has its fitted cti, and its
\* amplifier the channel's fitted drift scale, decay time and threshold,
\* also when channels were given the same OutputAmplifier object.
C20_EveryChannelFitted ==
    Updated => \A ch \in Channels : HasFitted(ch)

\* What the code does: with an amplifier object per channel every channel
\* has its fitted values; a shared object holds those of the last channel.
LastChannelWins ==
    Updated =>
        \A ch \in Channels :
            /\ segments[ch].cti = fitted.CTI[ch]
            /\ ~SharedAmplifier => HasFitted(ch)
            /\ SharedAmplifier =>
                  AmplifierOf(ch).drift_scale = fitted.DRIFT_SIZE[NumChannels]

\* ------------------------------------------------------- serial prescan
\* The charge of the whole array arr.
RECURSIVE RowsTotal(_, _)
RowsTotal(arr, h) == IF h = 0 THEN 0 ELSE RowSum(arr[h - 1]) + RowsTotal(arr, h - 1)
ArrayTotal(arr) == RowsTotal(arr, Height(arr))

\* C21: the serial-prescan columns of the stored exposure are 0 in every
\* state, whatever flatfield_exp, ramp_exp, fe55_exp and simulate_readout
\* calls were made; and every stamp of an fe55_exp is placed entirely
\* inside the image region: all of its charge is added there.
C21_PrescanStaysZero ==
    /\ \A r \in ImageRows : \A c \in RegisterCols :
          c < prescan_width => segarr[r][c] = 0
    /\ (Fe55Asked /\ error = "none") =>
          ArrayTotal(segarr) = ArrayTotal(call.before) + call.arg.num_fe55_hits * Unit

\* C21's case: two Fe55 hits were placed on an exposed segment with a
\* prescan column.
C21_Witness ==
    /\ Fe55Asked
    /\ error = "none"
    /\ call.arg.num_fe55_hits = 2
    /\ prescan_width = 1
    /\ ArrayTotal(call.before) > 0

====
